---- MODULE Spec2Model ----
(***************************************************************************)
(* FootballTalks (src/footballtalks/app.py): the team form summarizer      *)
(* recent_team_stats, the expected goal rate estimation, outcome_probs and *)
(* the most likely scoreline, the HTTP helper get_json and the binding of  *)
(* the module-level name pd across the script.                             *)
(*                                                                         *)
(* Each part is a state machine of its own (SpecForm, SpecRates, SpecGrid, *)
(* SpecHttp, SpecApp); the variables of the other parts stay idle.         *)
(* Floats are modelled exactly: a quotient is a pair <<n, d>>, a rate is a *)
(* fixed-point integer.                                                    *)
(***************************************************************************)
EXTENDS Integers, Sequences, FiniteSets, TLC

VARIABLES
    \* recent_team_stats(team_id, n)
    team_id, matches, pcS, idx, gf, ga, pts, count, summary

formVars == <<team_id, matches, pcS, idx, gf, ga, pts, count, summary>>

VARIABLES
    \* rate estimation (module level)
    hs, as_, desc, lh, la, pcR

rateVars == <<hs, as_, desc, lh, la, pcR>>

VARIABLES
    \* outcome_probs(g) and the most likely scoreline
    grid, home, draw, away, s, probs, hi, ai, pcG

gridVars == <<grid, home, draw, away, s, probs, hi, ai, pcG>>

VARIABLES
    \* get_json(url, headers, retry)
    retry, attempt, responses, result, pcH

httpVars == <<retry, attempt, responses, result, pcH>>

VARIABLES
    \* the script: the name pd and the recent-form loop
    pd, team, recent, rows, shown, pcA

appVars == <<pd, team, recent, rows, shown, pcA>>

vars == <<formVars, rateVars, gridVars, httpVars, appVars>>

\* What a step of one part leaves alone.
FrameForm == UNCHANGED <<rateVars, gridVars, httpVars, appVars>>
FrameRates == UNCHANGED <<formVars, gridVars, httpVars, appVars>>
FrameGrid == UNCHANGED <<formVars, rateVars, httpVars, appVars>>
FrameHttp == UNCHANGED <<formVars, rateVars, gridVars, appVars>>
FrameApp == UNCHANGED <<formVars, rateVars, gridVars, httpVars>>

\* ------------------------------------------------------------ bounds
MaxWindow == 2      \* records in a window of recent matches
MaxGoal == 1        \* largest full-time goal count of a record
MaxFormSteps == 2   \* per-game averages range over 0..MaxFormSteps steps
FormStep == 30      \* one step of a per-game average, in tenths of a goal
MaxDescLen == 3     \* pieces (words, whitespace runs) of a weather description
MaxSide == 2        \* rows (and columns) of a scoreline grid
MaxCell == 2        \* largest value of a grid cell
MaxRetry == 2       \* largest retry argument of get_json

\* ------------------------------------------------- Python values
\* A value that may be None: <<>> is None, <<v>> is the value v.
None == <<>>
Some(v) == <<v>>
IsNone(o) == o = <<>>
Val(o) == o[1]

\* A float quotient n/d kept exact.
Rat(n, d) == <<n, d>>
RatEq(p, q) == p[1] * q[2] = q[1] * p[2]
RatLe(p, q) == p[1] * q[2] <= q[1] * p[2]

\* ------------------------------------------------- match records
HomeId == 1
AwayId == 2
OtherId == 3
Winners == {"HOME_TEAM", "AWAY_TEAM", "DRAW", "None"}
Goals == 0..MaxGoal
OptGoals == {None} \cup {Some(g) : g \in Goals}

FullTimes == {None} \cup {Some([home |-> h, away |-> a]) : h \in OptGoals, a \in OptGoals}

IsValidFullTime(ft) ==
    /\ ~IsNone(ft)
    /\ ~IsNone(Val(ft).home)
    /\ ~IsNone(Val(ft).away)

\* The score object of a record: null, or fullTime and winner.  An unfinished
\* match (no full-time goal counts) has no winner.
Scores ==
    {None} \cup
    {Some([fullTime |-> ft, winner |-> w]) : ft \in FullTimes, w \in Winners}

ScoresOfApi ==
    {sc \in Scores : IsNone(sc) \/ IsValidFullTime(Val(sc).fullTime) \/ Val(sc).winner = "None"}

TeamPairs == {<<HomeId, AwayId>>, <<AwayId, HomeId>>}

MatchRecords ==
    {[homeTeam |-> [id |-> p[1]], awayTeam |-> [id |-> p[2]], score |-> sc] :
        p \in TeamPairs, sc \in ScoresOfApi}

RECURSIVE SeqsUpTo(_, _)
SeqsUpTo(S, n) ==
    IF n = 0 THEN {<<>>}
    ELSE LET shorter == SeqsUpTo(S, n - 1)
         IN  shorter \cup {Append(w, x) : w \in {v \in shorter : Len(v) = n - 1}, x \in S}

\* The lists team_recent_matches can return, of at most n records.
Windows(n) == SeqsUpTo(MatchRecords, n)

\* ------------------------------------------------- _gf, _ga
\* match["score"]["fullTime"] is a dict with both goal counts here.
_gf(tid, match) ==
    LET full == Val(Val(match.score).fullTime)
    IN  IF tid = match.homeTeam.id THEN Val(full.home) ELSE Val(full.away)

_ga(tid, match) ==
    LET full == Val(Val(match.score).fullTime)
    IN  IF tid = match.homeTeam.id THEN Val(full.away) ELSE Val(full.home)

\* Points of one valid record (the if/elif chain on the winner).
PointsFor(tid, match) ==
    LET w == Val(match.score).winner
    IN  IF w = "DRAW" THEN 1
        ELSE IF w = "HOME_TEAM" /\ tid = match.homeTeam.id THEN 3
        ELSE IF w = "AWAY_TEAM" /\ tid = match.awayTeam.id THEN 3
        ELSE 0

DefaultSummary ==
    [gf |-> Rat(12, 10), ga |-> Rat(11, 10), pts_per_game |-> Rat(15, 10), form_val |-> Rat(0, 10)]

NoSummary == [gf |-> Rat(0, 1), ga |-> Rat(0, 1), pts_per_game |-> Rat(0, 1), form_val |-> Rat(0, 1)]

Max(x, y) == IF x >= y THEN x ELSE y
Min(x, y) == IF x <= y THEN x ELSE y

\* ------------------------------------------------- recent_team_stats
IdleForm ==
    /\ team_id = HomeId
    /\ matches = <<>>
    /\ pcS = "idle"
    /\ idx = 1
    /\ gf = 0 /\ ga = 0 /\ pts = 0 /\ count = 0
    /\ summary = NoSummary

InitForm ==
    /\ team_id \in {HomeId, OtherId}
    /\ matches \in Windows(MaxWindow)
    /\ pcS = "start"
    /\ idx = 1
    /\ gf = 0 /\ ga = 0 /\ pts = 0 /\ count = 0
    /\ summary = NoSummary

\* if not matches: return the default dict; else gf = ga = pts = 0; count = 0
StatsStart ==
    /\ pcS = "start"
    /\ IF matches = <<>>
       THEN /\ summary' = DefaultSummary
            /\ pcS' = "done"
       ELSE /\ summary' = summary
            /\ pcS' = "loop"
    /\ UNCHANGED <<team_id, matches, idx, gf, ga, pts, count>>
    /\ FrameForm

\* One iteration of "for m in matches".
StatsStep ==
    /\ pcS = "loop"
    /\ idx <= Len(matches)
    /\ LET m == matches[idx]
       IN  IF IsNone(m.score)
           THEN \* m.get("score", {}) is None: None.get raises AttributeError
                /\ pcS' = "raised"
                /\ UNCHANGED <<idx, gf, ga, pts, count>>
           ELSE IF ~IsValidFullTime(Val(m.score).fullTime)
           THEN \* continue
                /\ idx' = idx + 1
                /\ UNCHANGED <<pcS, gf, ga, pts, count>>
           ELSE /\ count' = count + 1
                /\ gf' = gf + _gf(team_id, m)
                /\ ga' = ga + _ga(team_id, m)
                /\ pts' = pts + PointsFor(team_id, m)
                /\ idx' = idx + 1
                /\ UNCHANGED pcS
    /\ UNCHANGED <<team_id, matches, summary>>
    /\ FrameForm

\* games = max(count, 1); ppg = pts / games; return dict(...)
StatsReturn ==
    /\ pcS = "loop"
    /\ idx > Len(matches)
    /\ LET games == Max(count, 1)
       IN  summary' = [gf |-> Rat(gf, games), ga |-> Rat(ga, games),
                       pts_per_game |-> Rat(pts, games),
                       form_val |-> Rat(pts - games, games)]
    /\ pcS' = "done"
    /\ UNCHANGED <<team_id, matches, idx, gf, ga, pts, count>>
    /\ FrameForm

NextForm == StatsStart \/ StatsStep \/ StatsReturn

\* ------------------------------------------------- rate estimation
\* A per-game average (hs["gf"], ...) is an integer number of tenths of a goal.
\* A rate (lh, la) is an integer number of 1e-7 goals, which keeps the products
\* by 0.65, 0.35, 1.12 and 0.95 exact.
FloorRate == 2000000     \* 0.2
CapRate == 32000000      \* 3.2

FormVals == {FormStep * k : k \in 0..MaxFormSteps}
Forms == [gf : FormVals, ga : FormVals]

\* A weather description is a sequence of pieces: a whitespace run " " or a word.
\* Two adjacent words would be one longer word, so words are separated.
Words == {"rain", "Rain", "snow", "light", "clear", "unknown"}
Pieces == {" "} \cup Words
Descs ==
    {d \in SeqsUpTo(Pieces, MaxDescLen) :
        \A i \in 1..(Len(d) - 1) : d[i] = " " \/ d[i + 1] = " "}

\* str.split(): the words, whitespace runs dropped.
IsWord(p) == p # " "
Split(d) == SelectSeq(d, IsWord)

\* str.lower()
Lower(w) == IF w = "Rain" THEN "rain" ELSE w

\* desc.split()[0] raises IndexError when split() is the empty list.
FirstWordRaises(d) == Split(d) = <<>>
FirstWord(d) == Split(d)[1]

\* desc.split()[0].lower() in ("rain", "snow")
IsAdverse(d) == Lower(FirstWord(d)) \in {"rain", "snow"}

\* x * num / 100 for a rate x, a multiple of 100 units.
Times(x, num) == (x \div 100) * num

\* 0.65*f["gf"] + 0.35*g["ga"]: a tenth of a goal is 1000000 units.
Blend(f, g) == (65 * f.gf + 35 * g.ga) * 10000

\* line 225: max(0.2, 0.65*hs["gf"] + 0.35*as_["ga"]) * 1.12
BaseHome(h, a) == Times(Max(FloorRate, Blend(h, a)), 112)
\* line 226: max(0.2, 0.65*as_["gf"] + 0.35*hs["ga"])
BaseAway(h, a) == Max(FloorRate, Blend(a, h))
\* line 228: lh*0.95, la*0.95
Dampen(x) == Times(x, 95)
\* line 229: min(lh, 3.2)
Cap(x) == Min(x, CapRate)

IdleRates ==
    /\ hs = [gf |-> 0, ga |-> 0]
    /\ as_ = [gf |-> 0, ga |-> 0]
    /\ desc = <<>>
    /\ lh = 0 /\ la = 0
    /\ pcR = "idle"

InitRates ==
    /\ hs \in Forms
    /\ as_ \in Forms
    /\ desc \in Descs
    /\ lh = 0 /\ la = 0
    /\ pcR = "base"

\* lines 225-226
BaseRates ==
    /\ pcR = "base"
    /\ lh' = BaseHome(hs, as_)
    /\ la' = BaseAway(hs, as_)
    /\ pcR' = "weather"
    /\ UNCHANGED <<hs, as_, desc>>
    /\ FrameRates

\* lines 227-228
WeatherAdjust ==
    /\ pcR = "weather"
    /\ IF FirstWordRaises(desc)
       THEN /\ pcR' = "raised"
            /\ UNCHANGED <<lh, la>>
       ELSE /\ pcR' = "cap"
            /\ IF IsAdverse(desc)
               THEN lh' = Dampen(lh) /\ la' = Dampen(la)
               ELSE UNCHANGED <<lh, la>>
    /\ UNCHANGED <<hs, as_, desc>>
    /\ FrameRates

\* line 229
CapRates ==
    /\ pcR = "cap"
    /\ lh' = Cap(lh)
    /\ la' = Cap(la)
    /\ pcR' = "done"
    /\ UNCHANGED <<hs, as_, desc>>
    /\ FrameRates

NextRates == BaseRates \/ WeatherAdjust \/ CapRates

\* Lines 225-229 as one function of the inputs, for a description with a first word.
EstimateRates(h, a, d) ==
    LET h0 == BaseHome(h, a)
        a0 == BaseAway(h, a)
    IN  <<Cap(IF IsAdverse(d) THEN Dampen(h0) ELSE h0),
          Cap(IF IsAdverse(d) THEN Dampen(a0) ELSE a0)>>


\* ------------------------------------------------- outcome_probs
\* A grid g is a square array: g[h][a] for h, a in 0..n-1, h the home goals.
Side(g) == Cardinality(DOMAIN g)
Cells == 0..MaxCell
GridsOfSide(n) == [0..(n - 1) -> [0..(n - 1) -> Cells]]

\* A float quotient; 0/0 is nan (numpy warns, it does not raise).
Quot(n, d) == Rat(n, d)
IsNaN(q) == q[2] = 0

\* g.ravel(): row-major order, position p (from 1) holds g[(p-1) div n][(p-1) mod n].
Flatten(g) ==
    LET n == Side(g)
    IN  [p \in 1..(n * n) |-> g[(p - 1) \div n][(p - 1) % n]]

RECURSIVE SumSeq(_)
SumSeq(q) == IF q = <<>> THEN 0 ELSE Head(q) + SumSeq(Tail(q))

\* g.sum()
SumAll(g) == SumSeq(Flatten(g))

\* A plausible slip: the diagonal kept in the lower triangle.
TrilOffByOne(g, k) ==
    [i \in DOMAIN g |-> [j \in DOMAIN g[i] |-> IF j <= i + k + 1 THEN g[i][j] ELSE 0]]

\* np.tril(g, k): the elements on and below the k-th diagonal (j <= i + k).
Tril(g, k) ==
    [i \in DOMAIN g |-> [j \in DOMAIN g[i] |-> IF j <= i + k THEN g[i][j] ELSE 0]]

\* np.triu(g, k): the elements on and above the k-th diagonal (j >= i + k).
Triu(g, k) ==
    [i \in DOMAIN g |-> [j \in DOMAIN g[i] |-> IF j >= i + k THEN g[i][j] ELSE 0]]

\* np.trace(g)
Trace(g) == SumSeq([p \in 1..Side(g) |-> g[p - 1][p - 1]])

\* A plausible slip: ties resolved to the last maximum.
RECURSIVE ArgMaxLastFrom(_, _, _)
ArgMaxLastFrom(flat, p, best) ==
    IF p > Len(flat) THEN best
    ELSE ArgMaxLastFrom(flat, p + 1, IF flat[p] >= flat[best] THEN p ELSE best)

ArgMaxLast(flat) == ArgMaxLastFrom(flat, 2, 1) - 1

\* np.argmax: the index (from 0) of the first maximum of the flattened array.
RECURSIVE ArgMaxFrom(_, _, _)
ArgMaxFrom(flat, p, best) ==
    IF p > Len(flat) THEN best
    ELSE ArgMaxFrom(flat, p + 1, IF flat[p] > flat[best] THEN p ELSE best)

ArgMax(flat) == ArgMaxFrom(flat, 2, 1) - 1

\* np.unravel_index(k, (n, n))
UnravelIndex(k, n) == <<k \div n, k % n>>

NoProbs == <<Quot(0, 1), Quot(0, 1), Quot(0, 1)>>

IdleGrid ==
    /\ grid = [i \in {0} |-> [j \in {0} |-> 0]]
    /\ home = 0 /\ draw = 0 /\ away = 0 /\ s = 0
    /\ probs = NoProbs
    /\ hi = 0 /\ ai = 0
    /\ pcG = "idle"

InitGrid ==
    /\ \E n \in 1..MaxSide : grid \in GridsOfSide(n)
    /\ home = 0 /\ draw = 0 /\ away = 0 /\ s = 0
    /\ probs = NoProbs
    /\ hi = 0 /\ ai = 0
    /\ pcG = "probs"

\* line 231: outcome_probs(grid)
OutcomeProbs ==
    /\ pcG = "probs"
    /\ LET h == SumAll(Tril(grid, -1))
           d == Trace(grid)
           a == SumAll(Triu(grid, 1))
           t == h + d + a
       IN  /\ home' = h /\ draw' = d /\ away' = a /\ s' = t
           /\ probs' = <<Quot(h, t), Quot(d, t), Quot(a, t)>>
    /\ pcG' = "argmax"
    /\ UNCHANGED <<grid, hi, ai>>
    /\ FrameGrid

\* line 232: hi, ai = np.unravel_index(np.argmax(grid), grid.shape)
MostLikely ==
    /\ pcG = "argmax"
    /\ LET cell == UnravelIndex(ArgMax(Flatten(grid)), Side(grid))
       IN  hi' = cell[1] /\ ai' = cell[2]
    /\ pcG' = "done"
    /\ UNCHANGED <<grid, home, draw, away, s, probs>>
    /\ FrameGrid

NextGrid == OutcomeProbs \/ MostLikely

\* ------------------------------------------------- get_json
\* What one requests.get can do: raise, or answer with a status and a body.
Statuses == {200, 404}
Bodies == {"{}", "[1]", "<html>"}
Outcomes == [raised : BOOLEAN, status : Statuses, body : Bodies]

\* r.json() raises on a body that is not JSON, and returns the parsed value otherwise.
JsonRaises(b) == b = "<html>"
Json(b) == IF b = "{}" THEN "dict" ELSE "list"

\* A plausible slip: r.json() called outside the try block.
InTryJsonOutside(source) == source = "get"

\* Lines 32-35 lie inside try ... except Exception: both calls are covered.
InTry(source) == source \in {"get", "json"}

IdleHttp ==
    /\ retry = 0
    /\ attempt = 0
    /\ responses = <<>>
    /\ result = None
    /\ pcH = "idle"

InitHttp ==
    /\ retry \in 0..MaxRetry
    /\ attempt = 0
    /\ responses = <<>>
    /\ result = None
    /\ pcH = "loop"

\* One iteration of "for _ in range(retry + 1)".
Request ==
    /\ pcH = "loop"
    /\ attempt < retry + 1
    /\ \E o \in Outcomes :
        /\ responses' = Append(responses, o)
        /\ IF o.raised
           THEN \* requests.get raised: except Exception, sleep
                IF InTry("get")
                THEN attempt' = attempt + 1 /\ UNCHANGED <<result, pcH>>
                ELSE pcH' = "raised" /\ UNCHANGED <<result, attempt>>
           ELSE IF o.status = 200
           THEN IF JsonRaises(o.body)
                THEN IF InTry("json")
                     THEN attempt' = attempt + 1 /\ UNCHANGED <<result, pcH>>
                     ELSE pcH' = "raised" /\ UNCHANGED <<result, attempt>>
                ELSE \* return r.json()
                     /\ result' = Some(Json(o.body))
                     /\ pcH' = "done"
                     /\ UNCHANGED attempt
           ELSE \* time.sleep(0.6)
                attempt' = attempt + 1 /\ UNCHANGED <<result, pcH>>
    /\ UNCHANGED retry
    /\ FrameHttp

\* line 38: return None
ReturnNone ==
    /\ pcH = "loop"
    /\ attempt = retry + 1
    /\ result' = None
    /\ pcH' = "done"
    /\ UNCHANGED <<retry, attempt, responses>>
    /\ FrameHttp

NextHttp == Request \/ ReturnNone

\* ------------------------------------------------- the script and the name pd
\* What the module-level name pd is bound to.
PandasModule == "module pandas"
Float64 == "numpy.float64"
IsModule(v) == v = PandasModule

Teams == 1..2       \* [(home, hc), (away, ac)]

\* The records of the recent-form loop: a null score object, a null fullTime,
\* a fullTime dict without goal counts, a finished 0-0 draw.
FormLoopScores ==
    {None,
     Some([fullTime |-> None, winner |-> "None"]),
     Some([fullTime |-> Some([home |-> None, away |-> None]), winner |-> "None"]),
     Some([fullTime |-> Some([home |-> Some(0), away |-> Some(0)]), winner |-> "DRAW"])}

FormLoopRecords ==
    {[homeTeam |-> [id |-> HomeId], awayTeam |-> [id |-> AwayId], score |-> sc] :
        sc \in FormLoopScores}

FormLoopWindows == SeqsUpTo(FormLoopRecords, MaxWindow)

HasNullScore(w) == \E i \in 1..Len(w) : IsNone(w[i].score)

\* isinstance(ft, dict) for ft = m.get("score", {}).get("fullTime", {})
IsDictFullTime(m) == ~IsNone(Val(m.score).fullTime)
KeepsRow(m) == IsDictFullTime(m)

\* lines 255-264: the rows of the records whose fullTime is a dict.
RowsOf(w) ==
    LET kept == SelectSeq(w, KeepsRow)
    IN  [i \in 1..Len(kept) |-> [Result |-> Val(kept[i].score).winner]]

NothingShown == [t \in Teams |-> ""]
NoWindows == [t \in Teams |-> <<>>]

IdleApp ==
    /\ pd = PandasModule
    /\ team = 1
    /\ recent = NoWindows
    /\ rows = <<>>
    /\ shown = NothingShown
    /\ pcA = "idle"

\* After line 4, import pandas as pd.
InitApp ==
    /\ pd = PandasModule
    /\ team = 1
    /\ recent = NoWindows
    /\ rows = <<>>
    /\ shown = NothingShown
    /\ pcA = "safe_imports"

\* lines 23-25
SafeImports ==
    /\ pcA = "safe_imports"
    /\ pd' = IF ~IsModule(pd) THEN PandasModule ELSE pd
    /\ pcA' = "main"
    /\ UNCHANGED <<team, recent, rows, shown>>
    /\ FrameApp

\* lines 172-222: a missing key, no competitions, no matches or no coordinates
\* end the run with st.stop().
MainChecks ==
    /\ pcA = "main"
    /\ \E stop \in BOOLEAN : pcA' = IF stop THEN "stopped" ELSE "predict"
    /\ UNCHANGED <<pd, team, recent, rows, shown>>
    /\ FrameApp

\* lines 224-232; line 231 is ph, pd, pa = outcome_probs(grid).
\* recent_team_stats and desc.split()[0] may raise, which ends the run.
Predict ==
    /\ pcA = "predict"
    /\ \E raises \in BOOLEAN :
        IF raises
        THEN pcA' = "raised" /\ UNCHANGED pd
        ELSE pcA' = "fetch" /\ pd' = Float64
    /\ UNCHANGED <<team, recent, rows, shown>>
    /\ FrameApp

\* continue, or the end of "for team, col in [(home, hc), (away, ac)]"
AfterTeam(t) == IF t + 1 \in Teams THEN "fetch" ELSE "done"

\* lines 251-254
FetchRecent ==
    /\ pcA = "fetch"
    /\ \E w \in FormLoopWindows :
        /\ recent' = [recent EXCEPT ![team] = w]
        /\ IF w = <<>>
           THEN /\ shown' = [shown EXCEPT ![team] = "no recent games found"]
                /\ pcA' = AfterTeam(team)
                /\ team' = IF team + 1 \in Teams THEN team + 1 ELSE team
           ELSE /\ pcA' = "rows"
                /\ UNCHANGED <<shown, team>>
    /\ rows' = <<>>
    /\ UNCHANGED pd
    /\ FrameApp

\* lines 255-264; m.get("score", {}) is None for a null score object, and
\* None.get raises AttributeError, which the except of line 271 reports.
BuildRows ==
    /\ pcA = "rows"
    /\ IF HasNullScore(recent[team])
       THEN /\ shown' = [shown EXCEPT ![team] = "Error loading: NoneType has no attribute get"]
            /\ pcA' = AfterTeam(team)
            /\ team' = IF team + 1 \in Teams THEN team + 1 ELSE team
            /\ UNCHANGED rows
       ELSE /\ rows' = RowsOf(recent[team])
            /\ pcA' = "show"
            /\ UNCHANGED <<shown, team>>
    /\ UNCHANGED <<pd, recent>>
    /\ FrameApp

\* lines 265-272
ShowResults ==
    /\ pcA = "show"
    /\ shown' = [shown EXCEPT ![team] =
            IF rows # <<>>
            THEN IF IsModule(pd)
                 THEN "results table"
                 ELSE "Error loading: numpy.float64 has no attribute DataFrame"
            ELSE "no valid results yet"]
    /\ pcA' = AfterTeam(team)
    /\ team' = IF team + 1 \in Teams THEN team + 1 ELSE team
    /\ UNCHANGED <<pd, recent, rows>>
    /\ FrameApp

\* Streamlit runs the script again from the top on every interaction.
Rerun ==
    /\ pcA \in {"done", "stopped", "raised"}
    /\ pd' = PandasModule
    /\ team' = 1
    /\ recent' = NoWindows
    /\ rows' = <<>>
    /\ shown' = NothingShown
    /\ pcA' = "safe_imports"
    /\ FrameApp

NextApp ==
    SafeImports \/ MainChecks \/ Predict \/ FetchRecent \/ BuildRows \/ ShowResults \/ Rerun

\* ------------------------------------------------- specifications
StartForm == InitForm /\ IdleRates /\ IdleGrid /\ IdleHttp /\ IdleApp
StartRates == IdleForm /\ InitRates /\ IdleGrid /\ IdleHttp /\ IdleApp
StartGrid == IdleForm /\ IdleRates /\ InitGrid /\ IdleHttp /\ IdleApp
StartHttp == IdleForm /\ IdleRates /\ IdleGrid /\ InitHttp /\ IdleApp
StartApp == IdleForm /\ IdleRates /\ IdleGrid /\ IdleHttp /\ InitApp

SpecForm == StartForm /\ [][NextForm]_vars
SpecRates == StartRates /\ [][NextRates]_vars
SpecGrid == StartGrid /\ [][NextGrid]_vars
SpecHttp == StartHttp /\ [][NextHttp]_vars
SpecApp == StartApp /\ [][NextApp]_vars

\* ------------------------------------------------- claims: the form summarizer
\* A valid record has both full-time goal counts.
IsValidRecord(m) == ~IsNone(m.score) /\ IsValidFullTime(Val(m.score).fullTime)
ValidIndices(w) == {i \in 1..Len(w) : IsValidRecord(w[i])}
ValidCount(w) == Cardinality(ValidIndices(w))

SameSummary(x, y) ==
    /\ RatEq(x.gf, y.gf)
    /\ RatEq(x.ga, y.ga)
    /\ RatEq(x.pts_per_game, y.pts_per_game)
    /\ RatEq(x.form_val, y.form_val)

\* C1: whenever recent_team_stats returns for a window with zero valid records
\* (empty, or every record lacks a goal count), the summary is the default
\* gf=1.2, ga=1.1, pts_per_game=1.5, form_val=0.0.
C1_ZeroValidGivesDefault ==
    (pcS = "done" /\ ValidCount(matches) = 0) => SameSummary(summary, DefaultSummary)

\* The side of the perspective team as the claim reads it: home when the id is
\* the home team's, away otherwise.
PerspectiveSide(tid, m) == IF tid = m.homeTeam.id THEN "HOME_TEAM" ELSE "AWAY_TEAM"
WinsOf(tid, w) ==
    Cardinality({i \in ValidIndices(w) : Val(w[i].score).winner = PerspectiveSide(tid, w[i])})
DrawsOf(w) == Cardinality({i \in ValidIndices(w) : Val(w[i].score).winner = "DRAW"})

\* C4: for a window with at least one valid record, pts_per_game lies in [0,3]
\* and equals (3*wins + draws)/validCount, a win being a valid record whose
\* winner names the perspective team's side (away when the id is not the home id).
C4_PointsPerGame ==
    (pcS = "done" /\ ValidCount(matches) >= 1) =>
        /\ RatLe(Rat(0, 1), summary.pts_per_game)
        /\ RatLe(summary.pts_per_game, Rat(3, 1))
        /\ RatEq(summary.pts_per_game,
                 Rat(3 * WinsOf(team_id, matches) + DrawsOf(matches), ValidCount(matches)))

\* C5: recent_team_stats never raises, whatever the records of the window
\* (null score object, null fullTime, null goal counts, null winner).
C5_NeverRaises == pcS # "raised"

\* ------------------------------------------------- claims: the rates
\* C2: both final rates satisfy 0.2 <= rate <= 3.2.
C2_RatesInRange ==
    pcR = "done" =>
        /\ FloorRate <= lh /\ lh <= CapRate
        /\ FloorRate <= la /\ la <= CapRate

LightRain == <<"light", " ", "rain">>
Clear == <<"clear">>

\* C3: with the description "light rain" both rates are 0.95 times the rates
\* that the same form inputs give with "clear".
C3_LightRainDampens ==
    (pcR = "done" /\ desc = LightRain) =>
        /\ lh = Dampen(EstimateRates(hs, as_, Clear)[1])
        /\ la = Dampen(EstimateRates(hs, as_, Clear)[2])

\* C6: the rate estimation never fails, whatever the weather description
\* (the empty string and a whitespace-only string included).
C6_EstimationNeverFails == pcR # "raised"

\* ------------------------------------------------- claims: the grid
CellsOf(g) == {c \in (DOMAIN g) \X (DOMAIN g) : TRUE}

RECURSIVE MassOf(_, _)
MassOf(g, cs) ==
    IF cs = {} THEN 0
    ELSE LET c == CHOOSE x \in cs : TRUE
         IN  g[c[1]][c[2]] + MassOf(g, cs \ {c})

HomeCells(g) == {c \in CellsOf(g) : c[1] > c[2]}
DrawCells(g) == {c \in CellsOf(g) : c[1] = c[2]}
AwayCells(g) == {c \in CellsOf(g) : c[1] < c[2]}

IsProbability(q) == q[2] > 0 /\ 0 <= q[1] /\ q[1] <= q[2]

\* C7: for a grid with nonzero total mass, outcome_probs counts every cell
\* exactly once (home goals > away goals to home, the diagonal to draw, home
\* goals < away goals to away): the raw sums add up to the grid total, and the
\* three probabilities lie in [0,1] and sum to 1.
C7_OutcomeProbs ==
    (pcG \in {"argmax", "done"} /\ MassOf(grid, CellsOf(grid)) # 0) =>
        /\ home = MassOf(grid, HomeCells(grid))
        /\ draw = MassOf(grid, DrawCells(grid))
        /\ away = MassOf(grid, AwayCells(grid))
        /\ home + draw + away = MassOf(grid, CellsOf(grid))
        /\ \A k \in 1..3 : IsProbability(probs[k])
        /\ probs[1][2] = probs[2][2] /\ probs[2][2] = probs[3][2]
        /\ probs[1][1] + probs[2][1] + probs[3][1] = probs[1][2]

C7_Witness ==
    /\ pcG = "done"
    /\ Side(grid) = MaxSide
    /\ home > 0 /\ draw > 0 /\ away > 0
    /\ home # away

IsMaxCell(g, c) == \A o \in CellsOf(g) : g[o[1]][o[2]] <= g[c[1]][c[2]]
MaxCells(g) == {c \in CellsOf(g) : IsMaxCell(g, c)}
RowMajorBefore(c, o) == c[1] < o[1] \/ (c[1] = o[1] /\ c[2] < o[2])

\* C8: the predicted scoreline is a cell holding the grid's maximum, the first
\* such cell in row-major order; a grid whose only maximal cells are (0,0) and
\* (1,1) gives (0,0).
C8_FirstMaximum ==
    pcG = "done" =>
        /\ <<hi, ai>> \in MaxCells(grid)
        /\ \A c \in MaxCells(grid) : ~RowMajorBefore(c, <<hi, ai>>)
        /\ (MaxCells(grid) = {<<0, 0>>, <<1, 1>>}) => (hi = 0 /\ ai = 0)

C8_Witness ==
    /\ pcG = "done"
    /\ MaxCells(grid) = {<<0, 0>>, <<1, 1>>}
    /\ hi = 0 /\ ai = 0

\* ------------------------------------------------- claims: get_json
Answered200(o) == ~o.raised /\ o.status = 200
Parsed200(o) == Answered200(o) /\ ~JsonRaises(o.body)

\* C9 as stated: get_json returns the JSON body of the first attempt that
\* answers 200 and issues no request after it; it returns None when every
\* attempt raised or answered another status.
C9_FirstStatus200Returns ==
    pcH = "done" =>
        IF \E i \in 1..Len(responses) : Answered200(responses[i])
        THEN /\ \A i \in 1..(Len(responses) - 1) : ~Answered200(responses[i])
             /\ ~JsonRaises(responses[Len(responses)].body)
             /\ result = Some(Json(responses[Len(responses)].body))
        ELSE result = None

\* C9 amended: at most retry+1 requests and no exception for the caller; the
\* value returned is the parsed body of the first attempt that answers 200 with a
\* body that parses, which is the last request; an attempt that answers 200 with
\* a body that does not parse counts as failed; None after retry+1 failed attempts.
C9_FirstParsed200Returns ==
    /\ pcH # "raised"
    /\ Len(responses) <= retry + 1
    /\ pcH = "loop" => (attempt = Len(responses) /\ result = None)
    /\ pcH = "done" =>
        IF \E i \in 1..Len(responses) : Parsed200(responses[i])
        THEN /\ \A i \in 1..(Len(responses) - 1) : ~Parsed200(responses[i])
             /\ result = Some(Json(responses[Len(responses)].body))
        ELSE /\ result = None
             /\ Len(responses) = retry + 1

C9_Witness ==
    /\ pcH = "done"
    /\ Len(responses) >= 2
    /\ Answered200(responses[1]) /\ JsonRaises(responses[1].body)
    /\ result # None

\* ------------------------------------------------- claims: the name pd
HasDictFullTime(w) == \E i \in 1..Len(w) : ~IsNone(w[i].score) /\ IsDictFullTime(w[i])

\* C10: after the prediction step pd is still the pandas module, and a team
\* with a recent match whose fullTime is a dict (and no record with a null
\* score object) is shown its results table.
C10_PdStaysPandas ==
    \A t \in Teams :
        (shown[t] # "" /\ HasDictFullTime(recent[t]) /\ ~HasNullScore(recent[t])) =>
            /\ IsModule(pd)
            /\ shown[t] = "results table"

====
